---- MODULE Spec2Model ----
(***************************************************************************)
(* A model of the sherlock components: the MessagesBox mailbox of the ipc  *)
(* crate (src/ipc/src/lib.rs) and the Engine / Command / EnginesManager    *)
(* registry of the engines_manager crate.                                  *)
(*                                                                         *)
(* Every MessagesBox method takes the global mutex once per statement:     *)
(* `m.lock().unwrap().jobs.extend(jobs);` locks, extends and unlocks, and  *)
(* the next statement locks again.  A method of two statements is          *)
(* therefore two atomic steps, and other threads run between them.         *)
(***************************************************************************)
EXTENDS Integers, Sequences, FiniteSets, TLC

VARIABLES
    box,        \* the GLOBAL_INSTANCE: [jobs, responds, logs, pending]
    pc,         \* each thread's position inside the method it is running
    out,        \* each thread's local `out` of recieve_jobs / recieve_responds
    cnt,        \* history: how many messages each thread has created
    sent,       \* history: the messages extended into each queue
    got,        \* history: the vectors the receive calls returned, per queue
    appended,   \* history: a queue was appended to since the last finish
    calls,      \* history: the last calls of the sequential caller
    engines,    \* EnginesManager.engines: engine name -> Engine
    engine,     \* an Engine built by hand (Engine::new, new_command, add_command)
    cmd,        \* a Command held by a caller (Command::new, Command::from_json_str)
    latest,     \* history: the engine names last added, and those ever removed
    chan,       \* the mpsc channel of listen: the messages sent and not yet received
    loop,       \* where SherlockManager is: attached, built, in the loop of listen, panicked
    handler,    \* the task-event handler: none, listening, panicked
    workers,    \* the threads spawned by do_task that still sleep
    window,     \* what the tauri window was handed by emit
    seen,       \* history: the task events, dispatches and results so far
    result      \* history: the last registry / engine call and what it returned

vars == <<box, pc, out, cnt, sent, got, appended, calls, engines, engine, cmd, result,
          latest, chan, loop, handler, workers, window, seen>>

\* ------------------------------------------------------------------ bounds

\* Threads of the concurrent specification.
NumThreads == 2
\* Messages one thread may create.
MaxSend == 2
\* Longest vector handed to one send call.
MaxBatch == 2
\* Receive calls, and send_log calls, in one behaviour.
MaxRecv == 2
MaxLogs == 1
\* Commands in a hand-built Engine.
MaxCommands == 2
\* Pieces an argument template is put together from.
MaxPieces == 3
\* task-event events the frontend emits in one behaviour.
MaxEvents == 2
\* Producers of the fan-in specification.
NumProducers == 3
\* Iterations of the producer loop of the two-thread specification.
NumSends == 3

Threads == 1..NumThreads

\* ------------------------------------------------------- sequence helpers

Range(s) == { s[i] : i \in 1..Len(s) }

\* How often x occurs in the sequence s.
Count(x, s) == Cardinality({ i \in 1..Len(s) : s[i] = x })

RECURSIVE Flatten(_)
Flatten(ss) == IF ss = <<>> THEN <<>> ELSE Head(ss) \o Flatten(Tail(ss))

\* The messages thread t creates next: numbers cnt+1 .. cnt+k, in order.
Batch(t, from, k) == [ i \in 1..k |-> <<t, from + i>> ]

\* ------------------------------------------------------------ MessagesBox

\* MessagesBox::init
init == [jobs |-> <<>>, responds |-> <<>>, logs |-> <<>>, pending |-> FALSE]

\* m.lock().unwrap().jobs.extend(jobs);
jobs_extend(mb, jobs) == [mb EXCEPT !.jobs = @ \o jobs]

\* responds_extend with a fault: the vector replaces the queue.
responds_overwrite(mb, responds) == [mb EXCEPT !.responds = responds]

\* m.lock().unwrap().responds.extend(responds);
responds_extend(mb, responds) == [mb EXCEPT !.responds = @ \o responds]

\* m.lock().unwrap().pending = true;
set_pending(mb) == [mb EXCEPT !.pending = TRUE]

\* let out = m.lock().unwrap().jobs.clone();
jobs_clone(mb) == mb.jobs

\* jobs_clear with a fault: the clear is forgotten.
jobs_clear_kept(mb) == mb

\* m.lock().unwrap().jobs.clear();
jobs_clear(mb) == [mb EXCEPT !.jobs = <<>>]

\* let out = m.lock().unwrap().responds.clone();
responds_clone(mb) == mb.responds

\* responds_clear with a fault: the flag is reset with the queue.
responds_clear_finishing(mb) == [mb EXCEPT !.responds = <<>>, !.pending = FALSE]

\* m.lock().unwrap().responds.clear();
responds_clear(mb) == [mb EXCEPT !.responds = <<>>]

\* finish with a fault: the flag is left alone.
finish_nothing(mb) == mb

\* finish with a fault: the jobs and responds queues are emptied too.
finish_clearing(mb) == [init EXCEPT !.logs = mb.logs]

\* MessagesBox::finish: m.lock().unwrap().pending = false;
finish(mb) == [mb EXCEPT !.pending = FALSE]

\* MessagesBox::is_pending: m.lock().unwrap().pending
is_pending(mb) == mb.pending

\* MessagesBox::send_log: m.lock().unwrap().logs.push(log);
logs_push(mb, log) == [mb EXCEPT !.logs = Append(@, log)]

\* The whole methods, as one caller alone sees them: the statements in order.

\* MessagesBox::send_jobs
send_jobs(mb, jobs) == set_pending(jobs_extend(mb, jobs))

\* MessagesBox::send_responds
send_responds(mb, responds) == set_pending(responds_extend(mb, responds))

\* MessagesBox::recieve_jobs: the returned vector and the mailbox left behind.
recieve_jobs(mb) == [ret |-> jobs_clone(mb), box |-> jobs_clear(mb)]

\* MessagesBox::recieve_responds
recieve_responds(mb) == [ret |-> responds_clone(mb), box |-> responds_clear(mb)]

\* --------------------------------------- concurrent callers of the mailbox

Init ==
    /\ box = init
    /\ pc = [t \in Threads |-> "idle"]
    /\ out = [t \in Threads |-> <<>>]
    /\ cnt = [t \in Threads |-> 0]
    /\ sent = [jobs |-> {}, responds |-> {}]
    /\ got = [jobs |-> <<>>, responds |-> <<>>]
    /\ appended = FALSE
    /\ calls = <<>>
    /\ engines = <<>>
    /\ engine = <<>>
    /\ cmd = <<>>
    /\ result = <<>>
    /\ latest = [added |-> {}, removed |-> {}]
    /\ chan = <<>>
    /\ loop = "attached"
    /\ handler = "none"
    /\ workers = {}
    /\ window = <<>>
    /\ seen = <<>>

\* Receive calls begun so far, on either queue.
Recieved ==
    Len(got.jobs) + Len(got.responds)
    + Cardinality({u \in Threads : pc[u] \in {"recieve_jobs_clear", "recieve_responds_clear"}})

\* send_jobs, first statement.
send_jobs_extend(t) ==
    /\ pc[t] = "idle"
    /\ \E k \in 0..MaxBatch :
        /\ cnt[t] + k <= MaxSend
        /\ box' = jobs_extend(box, Batch(t, cnt[t], k))
        /\ cnt' = [cnt EXCEPT ![t] = @ + k]
        /\ sent' = [sent EXCEPT !.jobs = @ \cup Range(Batch(t, cnt[t], k))]
        /\ appended' = (appended \/ k > 0)
    /\ pc' = [pc EXCEPT ![t] = "send_jobs_pending"]
    /\ UNCHANGED <<out, got, calls, engines, engine, result, cmd,
                 latest, chan, loop, handler, workers, window, seen>>

\* send_jobs, second statement.
send_jobs_pending(t) ==
    /\ pc[t] = "send_jobs_pending"
    /\ box' = set_pending(box)
    /\ pc' = [pc EXCEPT ![t] = "idle"]
    /\ UNCHANGED <<out, cnt, sent, got, appended, calls, engines, engine, result, cmd,
                 latest, chan, loop, handler, workers, window, seen>>

\* recieve_jobs, first statement.
recieve_jobs_clone(t) ==
    /\ pc[t] = "idle"
    /\ Recieved < MaxRecv
    /\ out' = [out EXCEPT ![t] = jobs_clone(box)]
    /\ pc' = [pc EXCEPT ![t] = "recieve_jobs_clear"]
    /\ UNCHANGED <<box, cnt, sent, got, appended, calls, engines, engine, result, cmd,
                 latest, chan, loop, handler, workers, window, seen>>

\* recieve_jobs, second statement and return of `out`.
recieve_jobs_clear(t) ==
    /\ pc[t] = "recieve_jobs_clear"
    /\ box' = jobs_clear(box)
    /\ got' = [got EXCEPT !.jobs = Append(@, out[t])]
    /\ out' = [out EXCEPT ![t] = <<>>]
    /\ pc' = [pc EXCEPT ![t] = "idle"]
    /\ UNCHANGED <<cnt, sent, appended, calls, engines, engine, result, cmd,
                 latest, chan, loop, handler, workers, window, seen>>

\* send_responds, first statement.
send_responds_extend(t) ==
    /\ pc[t] = "idle"
    /\ \E k \in 0..MaxBatch :
        /\ cnt[t] + k <= MaxSend
        /\ box' = responds_extend(box, Batch(t, cnt[t], k))
        /\ cnt' = [cnt EXCEPT ![t] = @ + k]
        /\ sent' = [sent EXCEPT !.responds = @ \cup Range(Batch(t, cnt[t], k))]
        /\ appended' = (appended \/ k > 0)
    /\ pc' = [pc EXCEPT ![t] = "send_responds_pending"]
    /\ UNCHANGED <<out, got, calls, engines, engine, result, cmd,
                 latest, chan, loop, handler, workers, window, seen>>

\* send_responds, second statement.
send_responds_pending(t) ==
    /\ pc[t] = "send_responds_pending"
    /\ box' = set_pending(box)
    /\ pc' = [pc EXCEPT ![t] = "idle"]
    /\ UNCHANGED <<out, cnt, sent, got, appended, calls, engines, engine, result, cmd,
                 latest, chan, loop, handler, workers, window, seen>>

\* recieve_responds, first statement.
recieve_responds_clone(t) ==
    /\ pc[t] = "idle"
    /\ Recieved < MaxRecv
    /\ out' = [out EXCEPT ![t] = responds_clone(box)]
    /\ pc' = [pc EXCEPT ![t] = "recieve_responds_clear"]
    /\ UNCHANGED <<box, cnt, sent, got, appended, calls, engines, engine, result, cmd,
                 latest, chan, loop, handler, workers, window, seen>>

\* recieve_responds, second statement and return of `out`.
recieve_responds_clear(t) ==
    /\ pc[t] = "recieve_responds_clear"
    /\ box' = responds_clear(box)
    /\ got' = [got EXCEPT !.responds = Append(@, out[t])]
    /\ out' = [out EXCEPT ![t] = <<>>]
    /\ pc' = [pc EXCEPT ![t] = "idle"]
    /\ UNCHANGED <<cnt, sent, appended, calls, engines, engine, result, cmd,
                 latest, chan, loop, handler, workers, window, seen>>

\* finish: one statement.
finish_call(t) ==
    /\ pc[t] = "idle"
    /\ box' = finish(box)
    /\ appended' = FALSE
    /\ UNCHANGED <<pc, out, cnt, sent, got, calls, engines, engine, result, cmd,
                 latest, chan, loop, handler, workers, window, seen>>

\* is_pending: one statement, the flag is the return value.
is_pending_call(t) ==
    /\ pc[t] = "idle"
    /\ is_pending(box) \in BOOLEAN
    /\ UNCHANGED vars

\* send_log: one statement.
send_log(t) ==
    /\ pc[t] = "idle"
    /\ Len(box.logs) < MaxLogs
    /\ box' = logs_push(box, <<t, Len(box.logs) + 1>>)
    /\ appended' = TRUE
    /\ UNCHANGED <<pc, out, cnt, sent, got, calls, engines, engine, result, cmd,
                 latest, chan, loop, handler, workers, window, seen>>

Next ==
    \E t \in Threads :
        \/ send_jobs_extend(t)
        \/ send_jobs_pending(t)
        \/ recieve_jobs_clone(t)
        \/ recieve_jobs_clear(t)
        \/ send_responds_extend(t)
        \/ send_responds_pending(t)
        \/ recieve_responds_clone(t)
        \/ recieve_responds_clear(t)
        \/ finish_call(t)
        \/ is_pending_call(t)
        \/ send_log(t)

Spec == Init /\ [][Next]_vars

\* ------------------------------------------- claims on the concurrent mailbox

\* The messages of queue q that some receive call has returned or holds in `out`.
Delivered(q) ==
    Range(Flatten(got[q]))
    \cup UNION { Range(out[t]) : t \in { u \in Threads : pc[u] = "recieve_" \o q \o "_clear" } }

\* C1: no message is dropped: every message extended into a queue is still in
\* that queue, or is in the vector some receive call returned (or is about to
\* return); it is never cleared without having been returned.
C1_NoMessageDropped ==
    /\ \A m \in sent.jobs : m \in Range(box.jobs) \/ m \in Delivered("jobs")
    /\ \A m \in sent.responds : m \in Range(box.responds) \/ m \in Delivered("responds")

\* C2: no message is duplicated: a message sent once is in the result of at
\* most one receive call.
C2_NoMessageDuplicated ==
    /\ \A m \in sent.jobs : Count(m, Flatten(got.jobs)) <= 1
    /\ \A m \in sent.responds : Count(m, Flatten(got.responds)) <= 1

\* C4: if any of the three queues was appended to since the last finish (or
\* since initialisation), pending is true.
C4_AppendedImpliesPending == appended => box.pending

\* Message a of a producer precedes its message b in the results of queue q:
\* a is in the same result at an earlier position, or in an earlier result.
ObservedBefore(q, a, i, j) ==
    \/ \E j2 \in 1..(j - 1) : got[q][i][j2] = a
    \/ \E i2 \in 1..(i - 1) : a \in Range(got[q][i2])

FifoPerProducer(q) ==
    \A i \in 1..Len(got[q]) : \A j \in 1..Len(got[q][i]) :
        \A a \in sent[q] :
            (a[1] = got[q][i][j][1] /\ a[2] < got[q][i][j][2])
                => ObservedBefore(q, a, i, j)

\* C5: per producer and queue, when message a was appended before message b,
\* every receive result holding b holds a at an earlier position, or an earlier
\* receive result holds a.
C5_FifoPerProducer == FifoPerProducer("jobs") /\ FifoPerProducer("responds")

\* ------------------------------------------------ one caller, whole calls

\* A single caller (as tests::clear_queues_after_read) runs whole methods one
\* after the other.  `calls` keeps the last two calls: the method, the mailbox
\* before, the value returned and the mailbox after.
Caller == "caller"

Last2(s) == IF Len(s) <= 2 THEN s ELSE SubSeq(s, Len(s) - 1, Len(s))

Called(op, ret, after) ==
    /\ box' = after
    /\ calls' = Last2(Append(calls, [op |-> op, pre |-> box, ret |-> ret, post |-> after]))

InitSeq ==
    /\ box = init
    /\ pc = [t \in Threads |-> "idle"]
    /\ out = [t \in Threads |-> <<>>]
    /\ cnt = [t \in {Caller} |-> 0]
    /\ sent = [jobs |-> {}, responds |-> {}]
    /\ got = [jobs |-> <<>>, responds |-> <<>>]
    /\ appended = FALSE
    /\ calls = <<>>
    /\ engines = <<>>
    /\ engine = <<>>
    /\ cmd = <<>>
    /\ result = <<>>
    /\ latest = [added |-> {}, removed |-> {}]
    /\ chan = <<>>
    /\ loop = "attached"
    /\ handler = "none"
    /\ workers = {}
    /\ window = <<>>
    /\ seen = <<>>

seq_send_jobs ==
    /\ \E k \in 0..MaxBatch :
        /\ cnt[Caller] + k <= MaxSend
        /\ Called("send_jobs", <<>>, send_jobs(box, Batch(Caller, cnt[Caller], k)))
        /\ cnt' = [cnt EXCEPT ![Caller] = @ + k]
    /\ UNCHANGED <<pc, out, sent, got, appended, engines, engine, result, cmd,
                 latest, chan, loop, handler, workers, window, seen>>

seq_send_responds ==
    /\ \E k \in 0..MaxBatch :
        /\ cnt[Caller] + k <= MaxSend
        /\ Called("send_responds", <<>>, send_responds(box, Batch(Caller, cnt[Caller], k)))
        /\ cnt' = [cnt EXCEPT ![Caller] = @ + k]
    /\ UNCHANGED <<pc, out, sent, got, appended, engines, engine, result, cmd,
                 latest, chan, loop, handler, workers, window, seen>>

seq_recieve_jobs ==
    /\ Called("recieve_jobs", recieve_jobs(box).ret, recieve_jobs(box).box)
    /\ UNCHANGED <<pc, out, cnt, sent, got, appended, engines, engine, result, cmd,
                 latest, chan, loop, handler, workers, window, seen>>

seq_recieve_responds ==
    /\ Called("recieve_responds", recieve_responds(box).ret, recieve_responds(box).box)
    /\ UNCHANGED <<pc, out, cnt, sent, got, appended, engines, engine, result, cmd,
                 latest, chan, loop, handler, workers, window, seen>>

seq_finish ==
    /\ Called("finish", <<>>, finish(box))
    /\ UNCHANGED <<pc, out, cnt, sent, got, appended, engines, engine, result, cmd,
                 latest, chan, loop, handler, workers, window, seen>>

seq_is_pending ==
    /\ Called("is_pending", is_pending(box), box)
    /\ UNCHANGED <<pc, out, cnt, sent, got, appended, engines, engine, result, cmd,
                 latest, chan, loop, handler, workers, window, seen>>

seq_send_log ==
    /\ Len(box.logs) < MaxLogs
    /\ Called("send_log", <<>>, logs_push(box, <<Caller, Len(box.logs) + 1>>))
    /\ UNCHANGED <<pc, out, cnt, sent, got, appended, engines, engine, result, cmd,
                 latest, chan, loop, handler, workers, window, seen>>

NextSeq ==
    \/ seq_send_jobs
    \/ seq_send_responds
    \/ seq_recieve_jobs
    \/ seq_recieve_responds
    \/ seq_finish
    \/ seq_is_pending
    \/ seq_send_log

SpecSeq == InitSeq /\ [][NextSeq]_vars

\* The last two calls were both `op`, one right after the other.
Twice(op) == Len(calls) = 2 /\ calls[1].op = op /\ calls[2].op = op

\* C6 as stated: for any sequence of earlier send_jobs calls, recieve_jobs
\* followed at once by recieve_jobs returns a non-empty vector and then an
\* empty one, and the jobs queue is empty right after the first call.
C6_NonEmptyThenEmpty ==
    Twice("recieve_jobs") =>
        /\ calls[1].ret # <<>>
        /\ calls[2].ret = <<>>
        /\ calls[1].post.jobs = <<>>

\* C6 amended: the first call returns exactly the queued jobs, in order (a
\* non-empty vector exactly when a job was queued), the second returns an empty
\* vector, and the jobs queue is empty right after the first call.
C6_QueuedThenEmpty ==
    Twice("recieve_jobs") =>
        /\ calls[1].ret = calls[1].pre.jobs
        /\ (calls[1].ret # <<>> <=> calls[1].pre.jobs # <<>>)
        /\ calls[2].ret = <<>>
        /\ calls[1].post.jobs = <<>>

\* Two recieve_jobs calls in a row, the first on a queue holding two jobs.
C6_Witness == Twice("recieve_jobs") /\ Len(calls[1].ret) = 2

\* C7: finish leaves pending false whatever it was and whatever the queues
\* hold, and leaves the three queues as they were; is_pending returns the flag
\* and changes nothing.
C7_FinishAndIsPending ==
    \A i \in 1..Len(calls) :
        /\ calls[i].op = "finish" =>
            /\ calls[i].post.pending = FALSE
            /\ calls[i].post.jobs = calls[i].pre.jobs
            /\ calls[i].post.responds = calls[i].pre.responds
            /\ calls[i].post.logs = calls[i].pre.logs
        /\ calls[i].op = "is_pending" =>
            /\ calls[i].ret = calls[i].pre.pending
            /\ calls[i].post = calls[i].pre

\* finish called with pending true and all three queues holding messages, and
\* is_pending called right after it.
C7_Witness ==
    /\ Len(calls) = 2
    /\ calls[1].op = "finish"
    /\ calls[1].pre.pending
    /\ calls[1].pre.jobs # <<>> /\ calls[1].pre.responds # <<>> /\ calls[1].pre.logs # <<>>
    /\ calls[2].op = "is_pending"
    /\ calls[2].ret = FALSE

\* ------------------------------------------- N producers, then one receive

\* Each of the producers that takes part calls send_responds once with one
\* message; the receiver calls recieve_responds once, after every one of those
\* calls has returned.
Producers == 1..NumProducers
Receiver == NumProducers + 1

InitFanIn ==
    /\ box = init
    /\ pc \in { f \in [Producers \cup {Receiver} -> {"idle", "off", "wait"}] :
                    /\ f[Receiver] = "wait"
                    /\ \A p \in Producers : f[p] # "wait" }
    /\ out = [t \in Producers \cup {Receiver} |-> <<>>]
    /\ cnt = [t \in Producers \cup {Receiver} |-> 0]
    /\ sent = [jobs |-> {}, responds |-> {}]
    /\ got = [jobs |-> <<>>, responds |-> <<>>]
    /\ appended = FALSE
    /\ calls = <<>>
    /\ engines = <<>>
    /\ engine = <<>>
    /\ cmd = <<>>
    /\ result = <<>>
    /\ latest = [added |-> {}, removed |-> {}]
    /\ chan = <<>>
    /\ loop = "attached"
    /\ handler = "none"
    /\ workers = {}
    /\ window = <<>>
    /\ seen = <<>>

\* send_responds(vec![msg]), first statement.
fan_send_responds_extend(p) ==
    /\ pc[p] = "idle"
    /\ box' = responds_extend(box, Batch(p, 0, 1))
    /\ cnt' = [cnt EXCEPT ![p] = 1]
    /\ sent' = [sent EXCEPT !.responds = @ \cup Range(Batch(p, 0, 1))]
    /\ appended' = TRUE
    /\ pc' = [pc EXCEPT ![p] = "send_responds_pending"]
    /\ UNCHANGED <<out, got, calls, engines, engine, result, cmd,
                 latest, chan, loop, handler, workers, window, seen>>

\* send_responds, second statement: the call returns.
fan_send_responds_pending(p) ==
    /\ pc[p] = "send_responds_pending"
    /\ box' = set_pending(box)
    /\ pc' = [pc EXCEPT ![p] = "returned"]
    /\ UNCHANGED <<out, cnt, sent, got, appended, calls, engines, engine, result, cmd,
                 latest, chan, loop, handler, workers, window, seen>>

\* recieve_responds, first statement, once every send has returned.
fan_recieve_responds_clone ==
    /\ pc[Receiver] = "wait"
    /\ \A p \in Producers : pc[p] \in {"off", "returned"}
    /\ out' = [out EXCEPT ![Receiver] = responds_clone(box)]
    /\ pc' = [pc EXCEPT ![Receiver] = "recieve_responds_clear"]
    /\ UNCHANGED <<box, cnt, sent, got, appended, calls, engines, engine, result, cmd,
                 latest, chan, loop, handler, workers, window, seen>>

\* recieve_responds, second statement and return of `out`.
fan_recieve_responds_clear ==
    /\ pc[Receiver] = "recieve_responds_clear"
    /\ box' = responds_clear(box)
    /\ got' = [got EXCEPT !.responds = Append(@, out[Receiver])]
    /\ out' = [out EXCEPT ![Receiver] = <<>>]
    /\ pc' = [pc EXCEPT ![Receiver] = "returned"]
    /\ UNCHANGED <<cnt, sent, appended, calls, engines, engine, result, cmd,
                 latest, chan, loop, handler, workers, window, seen>>

NextFanIn ==
    \/ \E p \in Producers : fan_send_responds_extend(p)
    \/ \E p \in Producers : fan_send_responds_pending(p)
    \/ fan_recieve_responds_clone
    \/ fan_recieve_responds_clear

SpecFanIn == InitFanIn /\ [][NextFanIn]_vars

\* The producers that took part.
Senders == { p \in Producers : pc[p] # "off" }

\* C3: N producers each send one respond, in any interleaving; the single
\* recieve_responds call made after all N sends returned yields exactly those
\* N messages, each exactly once.
C3_FanInExactlyOnce ==
    pc[Receiver] = "returned" =>
        /\ Len(got.responds) = 1
        /\ Len(got.responds[1]) = Cardinality(Senders)
        /\ \A p \in Senders : Count(<<p, 1>>, got.responds[1]) = 1
        /\ box.responds = <<>>

\* The receive has returned the messages of three producers, the producer
\* with the largest number first.
C3_Witness ==
    /\ pc[Receiver] = "returned"
    /\ Cardinality(Senders) >= 3
    /\ got.responds[1][1] = <<NumProducers, 1>>

\* ------------------------------------ tests::multithread_test, two threads

\* The producer thread: `for i in 1..10 { send_responds(vec![msg]) }` and then
\* finish().  The consumer thread: `while is_pending() { recieve_responds() }`.
\* NumSends stands for the nine iterations of the test.  got.responds keeps the
\* non-empty vectors the consumer received.
InitMT ==
    /\ box = init
    /\ pc = [producer |-> "for", consumer |-> "while"]
    /\ out = [producer |-> <<>>, consumer |-> <<>>]
    /\ cnt = [producer |-> 0, consumer |-> 0]
    /\ sent = [jobs |-> {}, responds |-> {}]
    /\ got = [jobs |-> <<>>, responds |-> <<>>]
    /\ appended = FALSE
    /\ calls = <<>>
    /\ engines = <<>>
    /\ engine = <<>>
    /\ cmd = <<>>
    /\ result = <<>>
    /\ latest = [added |-> {}, removed |-> {}]
    /\ chan = <<>>
    /\ loop = "attached"
    /\ handler = "none"
    /\ workers = {}
    /\ window = <<>>
    /\ seen = <<>>

\* One more iteration: send_responds(responds), first statement.
mt_send_responds_extend ==
    /\ pc.producer = "for"
    /\ cnt.producer < NumSends
    /\ box' = responds_extend(box, Batch("producer", cnt.producer, 1))
    /\ cnt' = [cnt EXCEPT !.producer = @ + 1]
    /\ sent' = [sent EXCEPT !.responds = @ \cup Range(Batch("producer", cnt.producer, 1))]
    /\ appended' = TRUE
    /\ pc' = [pc EXCEPT !.producer = "send_responds_pending"]
    /\ UNCHANGED <<out, got, calls, engines, engine, result, cmd,
                 latest, chan, loop, handler, workers, window, seen>>

\* send_responds, second statement.
mt_send_responds_pending ==
    /\ pc.producer = "send_responds_pending"
    /\ box' = set_pending(box)
    /\ pc' = [pc EXCEPT !.producer = "for"]
    /\ UNCHANGED <<out, cnt, sent, got, appended, calls, engines, engine, result, cmd,
                 latest, chan, loop, handler, workers, window, seen>>

\* The loop is over: MessagesBox::finish().
mt_finish ==
    /\ pc.producer = "for"
    /\ cnt.producer = NumSends
    /\ box' = finish(box)
    /\ appended' = FALSE
    /\ pc' = [pc EXCEPT !.producer = "done"]
    /\ UNCHANGED <<out, cnt, sent, got, calls, engines, engine, result, cmd,
                 latest, chan, loop, handler, workers, window, seen>>

\* while MessagesBox::is_pending()
mt_while ==
    /\ pc.consumer = "while"
    /\ pc' = [pc EXCEPT !.consumer =
                IF is_pending(box) THEN "recieve_responds_clone" ELSE "done"]
    /\ UNCHANGED <<box, out, cnt, sent, got, appended, calls, engines, engine, result, cmd,
                 latest, chan, loop, handler, workers, window, seen>>

\* recieve_responds, first statement.
mt_recieve_responds_clone ==
    /\ pc.consumer = "recieve_responds_clone"
    /\ out' = [out EXCEPT !.consumer = responds_clone(box)]
    /\ pc' = [pc EXCEPT !.consumer = "recieve_responds_clear"]
    /\ UNCHANGED <<box, cnt, sent, got, appended, calls, engines, engine, result, cmd,
                 latest, chan, loop, handler, workers, window, seen>>

\* recieve_responds, second statement; back to the loop test.
mt_recieve_responds_clear ==
    /\ pc.consumer = "recieve_responds_clear"
    /\ box' = responds_clear(box)
    /\ got' = [got EXCEPT !.responds =
                IF out.consumer = <<>> THEN @ ELSE Append(@, out.consumer)]
    /\ out' = [out EXCEPT !.consumer = <<>>]
    /\ pc' = [pc EXCEPT !.consumer = "while"]
    /\ UNCHANGED <<cnt, sent, appended, calls, engines, engine, result, cmd,
                 latest, chan, loop, handler, workers, window, seen>>

ProducerMT == mt_send_responds_extend \/ mt_send_responds_pending \/ mt_finish

ConsumerMT == mt_while \/ mt_recieve_responds_clone \/ mt_recieve_responds_clear

NextMT ==
    \/ mt_send_responds_extend
    \/ mt_send_responds_pending
    \/ mt_finish
    \/ mt_while
    \/ mt_recieve_responds_clone
    \/ mt_recieve_responds_clear

\* Both are OS threads: each keeps being scheduled, and a thread waiting for
\* the mutex gets it.
SpecMT == InitMT /\ [][NextMT]_vars /\ WF_vars(ProducerMT) /\ WF_vars(ConsumerMT)

\* C8: in every fair execution of the producer/consumer pair the consumer's
\* loop exits.
C8_ConsumerTerminates == <>(pc.consumer = "done")

\* Both threads are done and the consumer went round its loop and received.
C8_Witness ==
    /\ pc.consumer = "done"
    /\ pc.producer = "done"
    /\ Len(got.responds) >= 2

\* ------------------------------------------------------- Command and Engine

\* Strings the code searches or rewrites are sequences of characters; names,
\* paths and descriptions are only compared and stay atomic strings.
\* Option<T>: None is the empty sequence, Some(x) the sequence of x alone.
None == <<>>
Some(x) == <<x>>

Ok(v) == [ok |-> TRUE, val |-> v]
Err(e) == [ok |-> FALSE, err |-> e]

\* The placeholder "$query".
QUERY == <<"$", "q", "u", "e", "r", "y">>

\* str::contains
Contains(s, pat) ==
    \E i \in 1..(Len(s) - Len(pat) + 1) : SubSeq(s, i, i + Len(pat) - 1) = pat

\* Command::new with a fault: the placeholder is looked for at the start only.
Command_new_prefix(name, args, description) ==
    IF Len(args) < Len(QUERY) \/ SubSeq(args, 1, Len(QUERY)) # QUERY
    THEN Err("InvalidArgs")
    ELSE Ok([name |-> name, args |-> args, description |-> description])

\* Command::new
Command_new(name, args, description) ==
    IF ~Contains(args, QUERY)
    THEN Err("InvalidArgs")
    ELSE Ok([name |-> name, args |-> args, description |-> description])

\* str::replace: every match of `from`, left to right, none overlapping; the
\* text put in is not searched again.
RECURSIVE replace(_, _, _)
replace(s, from, to) ==
    IF Len(s) < Len(from) THEN s
    ELSE IF SubSeq(s, 1, Len(from)) = from
         THEN to \o replace(SubSeq(s, Len(from) + 1, Len(s)), from, to)
         ELSE <<Head(s)>> \o replace(Tail(s), from, to)

\* parse_args with a fault: only the first placeholder is replaced (replacen 1).
parse_args_first(c, query) ==
    LET at == { i \in 1..(Len(c.args) - Len(QUERY) + 1) :
                    SubSeq(c.args, i, i + Len(QUERY) - 1) = QUERY }
        first == CHOOSE i \in at : \A j \in at : i <= j
    IN  IF at = {} THEN c.args
        ELSE SubSeq(c.args, 1, first - 1) \o query
                 \o SubSeq(c.args, first + Len(QUERY), Len(c.args))

\* Command::parse_args
parse_args(c, query) == replace(c.args, QUERY, query)

\* Command::get_name, Command::get_description
get_name(c) == c.name
get_description(c) == c.description

\* #[validate(pattern = r"^.*\$query.*$")] on Command.args: `.` matches no line
\* break and the anchors are those of the whole text.
Command_validate(c) == Contains(c.args, QUERY) /\ "\n" \notin Range(c.args)

\* Command::from_json_str (serde_valid): deserialize, then validate.
Command_from_json_str(c) == IF Command_validate(c) THEN Ok(c) ELSE Err("validation")

\* #[derive(Validate)] on Engine: no field of Engine carries a #[validate]
\* attribute, `commands` included, so nothing is checked and the commands'
\* own pattern is not run.
Engine_validate(e) == TRUE

\* Engine::from_json_reader (serde_valid): deserialize, then validate.
Engine_from_json_reader(fd) ==
    IF fd.kind = "malformed" THEN Err("syntax")
    ELSE IF Engine_validate(fd.engine) THEN Ok(fd.engine)
    ELSE Err("validation")

\* Engine::new
Engine_new(name, path, prefix, commands, description) ==
    [name |-> name, path |-> path, prefix |-> prefix, description |-> description,
     commands |-> IF commands = None THEN <<>> ELSE commands[1]]

\* Engine::is_command_exists
is_command_exists(e, name) == \E i \in 1..Len(e.commands) : e.commands[i].name = name

\* Engine::new_command with a fault: a command of the same name is replaced.
new_command_replacing(e, name, args, description) ==
    LET c == Command_new(name, args, description)
        kept == SelectSeq(e.commands, LAMBDA x : x.name # name)
    IN  IF c.ok
        THEN [engine |-> [e EXCEPT !.commands = Append(kept, c.val)], ret |-> Ok("unit")]
        ELSE [engine |-> e, ret |-> c]

\* Engine::new_command
new_command(e, name, args, description) ==
    IF is_command_exists(e, name)
    THEN [engine |-> e, ret |-> Err("CommandExists")]
    ELSE LET c == Command_new(name, args, description)
         IN  IF c.ok
             THEN [engine |-> [e EXCEPT !.commands = Append(@, c.val)], ret |-> Ok("unit")]
             ELSE [engine |-> e, ret |-> c]

\* Engine::add_command
add_command(e, command) ==
    IF is_command_exists(e, command.name)
    THEN [engine |-> e, ret |-> Err("CommandExists")]
    ELSE [engine |-> [e EXCEPT !.commands = Append(@, command)], ret |-> Ok("unit")]

\* Iterator::find in Engine::execute with a fault: when no command has the
\* name, the first command of the engine is taken.
find_or_first(commands, command_name) ==
    LET at == { i \in 1..Len(commands) : get_name(commands[i]) = command_name }
    IN  IF at # {} THEN Some(commands[CHOOSE i \in at : \A j \in at : i <= j])
        ELSE IF commands # <<>> THEN Some(commands[1])
        ELSE None

\* self.commands.iter().find(|c| c.get_name() == command_name): the first
\* command of that name.
find(commands, command_name) ==
    LET at == { i \in 1..Len(commands) : get_name(commands[i]) = command_name }
    IN  IF at = {} THEN None
        ELSE Some(commands[CHOOSE i \in at : \A j \in at : i <= j])

\* str::split with a fault: the string is cut at its first space only.
split_once(s, sep) ==
    LET at == { i \in 1..Len(s) : s[i] = sep }
        first == CHOOSE i \in at : \A j \in at : i <= j
    IN  IF at = {} THEN <<s>>
        ELSE <<SubSeq(s, 1, first - 1), SubSeq(s, first + 1, Len(s))>>

\* str::split(' '): the pieces between the spaces, the empty ones included.
RECURSIVE split(_, _)
split(s, sep) ==
    LET at == { i \in 1..Len(s) : s[i] = sep }
        first == CHOOSE i \in at : \A j \in at : i <= j
    IN  IF at = {} THEN <<s>>
        ELSE <<SubSeq(s, 1, first - 1)>> \o split(SubSeq(s, first + 1, Len(s)), sep)

\* process::Command::output with a fault: a non-zero exit status is an error.
output_checked(os) ==
    IF os.ran /\ os.status = 0
    THEN Ok([status |-> os.status, stdout |-> os.stdout, stderr |-> os.stderr])
    ELSE Err("io::Error")

\* process::Command::output: an io::Error when the program could not be
\* started or waited for, else its exit status, stdout and stderr. `os` is what
\* the operating system does with the invocation.
output(os) ==
    IF os.ran
    THEN Ok([status |-> os.status, stdout |-> os.stdout, stderr |-> os.stderr])
    ELSE Err("io::Error")

\* std::str::from_utf8 on a sequence of bytes: well-formed UTF-8 is returned
\* as it is.
RECURSIVE is_utf8(_)
is_utf8(b) ==
    IF b = <<>> THEN TRUE
    ELSE LET x == b[1]
             cont(i) == i <= Len(b) /\ b[i] >= 128 /\ b[i] <= 191
         IN  IF x <= 127 THEN is_utf8(Tail(b))
             ELSE IF x >= 194 /\ x <= 223
                  THEN cont(2) /\ is_utf8(SubSeq(b, 3, Len(b)))
             ELSE IF x >= 224 /\ x <= 239
                  THEN /\ cont(2) /\ cont(3)
                       /\ (x = 224 => b[2] >= 160)
                       /\ (x = 237 => b[2] <= 159)
                       /\ is_utf8(SubSeq(b, 4, Len(b)))
             ELSE IF x >= 240 /\ x <= 244
                  THEN /\ cont(2) /\ cont(3) /\ cont(4)
                       /\ (x = 240 => b[2] >= 144)
                       /\ (x = 244 => b[2] <= 143)
                       /\ is_utf8(SubSeq(b, 5, Len(b)))
             ELSE FALSE

from_utf8(b) == IF is_utf8(b) THEN Ok(b) ELSE Err("Utf8Error")

\* Engine::execute. `spawned` is the invocation handed to the operating
\* system, None when none was.
execute(e, command_name, query, os) ==
    IF find(e.commands, command_name) # None
    THEN LET command == find(e.commands, command_name)[1]
             args == split(parse_args(command, query), " ")
             invocation == IF e.prefix # None
                           THEN [program |-> e.prefix[1], args |-> <<e.path>> \o args]
                           ELSE [program |-> e.path, args |-> args]
         IN  IF ~output(os).ok
             THEN [ret |-> Err("ExecutionFailed"), spawned |-> Some(invocation)]
             ELSE IF ~from_utf8(output(os).val.stdout).ok
             THEN [ret |-> Err("UnknownError"), spawned |-> Some(invocation)]
             ELSE [ret |-> Ok(from_utf8(output(os).val.stdout).val),
                   spawned |-> Some(invocation)]
    ELSE [ret |-> Err("UnknownCommand"), spawned |-> None]

\* Engine::list_commands: command name -> description.  A later command of
\* the same name replaces the earlier one in the collected HashMap.
list_commands(e) ==
    [n \in { e.commands[i].name : i \in 1..Len(e.commands) } |->
        LET last == CHOOSE i \in 1..Len(e.commands) :
                        /\ e.commands[i].name = n
                        /\ \A j \in (i + 1)..Len(e.commands) : e.commands[j].name # n
        IN  e.commands[last].description]

\* ----------------------------------------------------------- EnginesManager

\* EnginesManager::init
EnginesManager_init == <<>>

contains_key(map, k) == k \in DOMAIN map

\* HashMap::insert
insert(map, k, v) == [n \in DOMAIN map \cup {k} |-> IF n = k THEN v ELSE map[n]]

\* HashMap::remove with a fault: every other entry goes as well.
remove_others(map, k) == [n \in {} |-> map[n]]

\* HashMap::remove
remove(map, k) == [n \in DOMAIN map \ {k} |-> map[n]]

\* EnginesManager::add_engine_from_config with a fault: the engine read is
\* inserted before the name is looked up.
add_engine_from_config_early(map, config_file) ==
    IF config_file.kind = "missing"
    THEN [engines |-> map, ret |-> Err("InvalidConfig")]
    ELSE LET parsed == Engine_from_json_reader(config_file)
         IN  IF ~parsed.ok THEN [engines |-> map, ret |-> Err("InvalidConfig")]
             ELSE [engines |-> insert(map, parsed.val.name, parsed.val),
                   ret |-> IF contains_key(map, parsed.val.name)
                           THEN Err("EngineExists") ELSE Ok("unit")]

\* EnginesManager::add_engine_from_config: the map afterwards and the value returned.
add_engine_from_config(map, config_file) ==
    IF config_file.kind = "missing"
    THEN [engines |-> map, ret |-> Err("InvalidConfig")]
    ELSE LET parsed == Engine_from_json_reader(config_file)
         IN  IF ~parsed.ok THEN [engines |-> map, ret |-> Err("InvalidConfig")]
             ELSE IF contains_key(map, parsed.val.name)
             THEN [engines |-> map, ret |-> Err("EngineExists")]
             ELSE [engines |-> insert(map, parsed.val.name, parsed.val), ret |-> Ok("unit")]

\* EnginesManager::add_engine with a fault: an engine of the same name is
\* overwritten.
add_engine_overwriting(map, name, path, prefix, description) ==
    [engines |-> insert(map, name, Engine_new(name, path, prefix, None, description)),
     ret |-> Ok("unit")]

\* EnginesManager::add_engine
add_engine(map, name, path, prefix, description) ==
    IF contains_key(map, name)
    THEN [engines |-> map, ret |-> Err("EngineExists")]
    ELSE [engines |-> insert(map, name, Engine_new(name, path, prefix, None, description)),
          ret |-> Ok("unit")]

\* EnginesManager::remove_engine
remove_engine(map, engine_name) == remove(map, engine_name)

\* EnginesManager::list_engines (the keys; a HashMap has no order)
list_engines(map) == DOMAIN map

\* EnginesManager::list_engine_commands
list_engine_commands(map, name) ==
    IF contains_key(map, name) THEN Ok(list_commands(map[name])) ELSE Err("UnknownEngine")

\* Result::map_err with a fault: the error is passed on as it is.
map_err_kept(r, e) == r

\* Result::map_err(|_| e)
map_err(r, e) == IF r.ok THEN r ELSE Err(e)

\* EnginesManager::execute
EnginesManager_execute(map, engine_name, command, query, os) ==
    IF contains_key(map, engine_name)
    THEN map_err(execute(map[engine_name], command, query, os).ret, "UnkownCommand")
    ELSE Err("UnknownEngine")

\* ------------------------------------------------------------------- inputs

EngineNames == {"facebook", "google"}
CommandNames == {"user", "group"}
Path == "./engines/engine"
Prefixes == {None, Some("python3")}
Descriptions == {None, Some("search a user")}

\* The queries: "u1", "", "a b", "$query".
Queries == {<<"u", "1">>, <<>>, <<"a", " ", "b">>, QUERY}

\* What a started program may write to its stdout, in bytes: "t\n" and "é"
\* are UTF-8, a lone 0xFF and 0xC3 followed by "(" are not.
Utf8Stdouts == {<<116, 10>>, <<195, 169>>}
OtherStdouts == {<<255>>, <<195, 40>>}

\* What the operating system may do with an invocation: fail to run it, or
\* run it to any exit status, stdout and stderr.
OsOutcomes ==
    {[ran |-> FALSE]}
    \cup [ran : {TRUE}, status : {0, 1}, stdout : Utf8Stdouts \cup OtherStdouts,
          stderr : {<<>>, <<101>>}]

\* The outcomes the registry's execute is tried with: not run, or run to
\* exit status 0 with nothing on stderr.
RegistryOutcomes == { os \in OsOutcomes : os.ran => (os.status = 0 /\ os.stderr = <<>>) }

\* Argument templates a caller or a descriptor may give.
\* "-s=$query"
T_s_query == <<"-", "s", "=", "$", "q", "u", "e", "r", "y">>
\* "$query $query"
T_query_query == <<"$", "q", "u", "e", "r", "y", " ", "$", "q", "u", "e", "r", "y">>
\* "-s=$q"
T_s_q == <<"-", "s", "=", "$", "q">>
\* "-u query"
T_u_query == <<"-", "u", " ", "q", "u", "e", "r", "y">>

Templates == {T_s_query, T_query_query, T_s_q, T_u_query}

\* A command entry of a descriptor.
Entry(name, args) == [name |-> name, args |-> args, description |-> None]

\* The command entries a descriptor may hold: any name with any template.
DescriptorCommands == { Entry(n, a) : n \in CommandNames, a \in Templates }

\* The `commands` arrays of the descriptors: none, one or two well-formed
\* entries, an entry whose template lacks "$query", two entries of one name.
DescriptorLists == {
    <<>>,
    <<Entry("user", T_s_query)>>,
    <<Entry("user", T_s_query), Entry("group", T_query_query)>>,
    <<Entry("user", T_s_q)>>,
    <<Entry("group", T_s_query), Entry("user", T_u_query)>>,
    <<Entry("user", T_s_query), Entry("user", T_query_query)>> }

\* The config.json files: missing, not an engine descriptor, or a descriptor.
ConfigFiles ==
    {[kind |-> "missing"], [kind |-> "malformed"]}
    \cup { [kind |-> "descriptor",
            engine |-> [name |-> n, path |-> Path, prefix |-> Some("python3"),
                        description |-> Some("search a user"), commands |-> cs]] :
            n \in EngineNames, cs \in DescriptorLists }

\* ---------------------------------------------- the registry and its callers

InitRegistry ==
    /\ box = init
    /\ pc = [t \in Threads |-> "idle"]
    /\ out = [t \in Threads |-> <<>>]
    /\ cnt = [t \in Threads |-> 0]
    /\ sent = [jobs |-> {}, responds |-> {}]
    /\ got = [jobs |-> <<>>, responds |-> <<>>]
    /\ appended = FALSE
    /\ calls = <<>>
    /\ engines = EnginesManager_init
    /\ engine = <<>>
    /\ cmd = <<>>
    /\ result = <<>>
    /\ latest = [added |-> {}, removed |-> {}]
    /\ chan = <<>>
    /\ loop = "attached"
    /\ handler = "none"
    /\ workers = {}
    /\ window = <<>>
    /\ seen = <<>>

\* The controller's calls change the registry; `result` keeps the call, the
\* registry before it and the value it returned.
Returned(op, arg, ret) == [op |-> op, arg |-> arg, pre |-> engines, ret |-> ret]

reg_add_engine_from_config ==
    /\ \E f \in ConfigFiles :
        /\ engines' = add_engine_from_config(engines, f).engines
        /\ result' = Returned("add_engine_from_config", f, add_engine_from_config(engines, f).ret)
        /\ latest' = IF add_engine_from_config(engines, f).ret.ok
                      THEN [latest EXCEPT !.added = @ \cup {f.engine.name}] ELSE latest
    /\ UNCHANGED <<box, pc, out, cnt, sent, got, appended, calls, engine, cmd,
                 chan, loop, handler, workers, window, seen>>

reg_add_engine ==
    /\ \E n \in EngineNames, p \in Prefixes, d \in Descriptions :
        /\ engines' = add_engine(engines, n, Path, p, d).engines
        /\ result' = Returned("add_engine", n, add_engine(engines, n, Path, p, d).ret)
        /\ latest' = IF add_engine(engines, n, Path, p, d).ret.ok
                      THEN [latest EXCEPT !.added = @ \cup {n}] ELSE latest
    /\ UNCHANGED <<box, pc, out, cnt, sent, got, appended, calls, engine, cmd,
                 chan, loop, handler, workers, window, seen>>

reg_remove_engine ==
    /\ \E n \in EngineNames :
        /\ engines' = remove_engine(engines, n)
        /\ result' = Returned("remove_engine", n, "unit")
        /\ latest' = [added |-> latest.added \ {n},
                      removed |-> IF contains_key(engines, n)
                                  THEN latest.removed \cup {n} ELSE latest.removed]
    /\ UNCHANGED <<box, pc, out, cnt, sent, got, appended, calls, engine, cmd,
                 chan, loop, handler, workers, window, seen>>

reg_list_engines ==
    /\ result' = Returned("list_engines", "unit", list_engines(engines))
    /\ UNCHANGED <<box, pc, out, cnt, sent, got, appended, calls, engines, engine, cmd,
                 latest, chan, loop, handler, workers, window, seen>>

reg_list_engine_commands ==
    /\ \E n \in EngineNames :
        result' = Returned("list_engine_commands", n, list_engine_commands(engines, n))
    /\ UNCHANGED <<box, pc, out, cnt, sent, got, appended, calls, engines, engine, cmd,
                 latest, chan, loop, handler, workers, window, seen>>

\* manager.execute(engine, command, query)
reg_execute ==
    /\ \E e \in EngineNames, n \in CommandNames, os \in RegistryOutcomes :
        result' = Returned("execute",
                           [engine |-> e, command |-> n, query |-> <<"u", "1">>, os |-> os],
                           EnginesManager_execute(engines, e, n, <<"u", "1">>, os))
    /\ UNCHANGED <<box, pc, out, cnt, sent, got, appended, calls, engines, engine, cmd,
                 latest, chan, loop, handler, workers, window, seen>>

NextRegistry ==
    \/ reg_execute
    \/ reg_add_engine_from_config
    \/ reg_add_engine
    \/ reg_remove_engine
    \/ reg_list_engines
    \/ reg_list_engine_commands

SpecRegistry == InitRegistry /\ [][NextRegistry]_vars

\* C9: every Command of every Engine in the registry has a template that
\* contains "$query", however the engine got there.
C9_TemplatesHoldQuery ==
    \A n \in DOMAIN engines : \A i \in 1..Len(engines[n].commands) :
        Contains(engines[n].commands[i].args, QUERY)

\* ------------------------------------------------- an Engine built by hand

\* The commands a caller can hold: made by Command::new or Command::from_json_str.
BuiltCommands ==
    { Command_new(n, a, d).val :
        n \in CommandNames, a \in { t \in Templates : Command_new("user", t, None).ok },
        d \in Descriptions }
    \cup { c \in DescriptorCommands : Command_from_json_str(c).ok }

\* Vec<Command> of up to MaxCommands built commands.
RECURSIVE CommandLists(_)
CommandLists(k) ==
    IF k = 0 THEN {<<>>}
    ELSE CommandLists(k - 1)
         \cup { Append(cs, c) : cs \in { x \in CommandLists(k - 1) : Len(x) = k - 1 },
                                c \in BuiltCommands }

InitEngine ==
    /\ box = init
    /\ pc = [t \in Threads |-> "idle"]
    /\ out = [t \in Threads |-> <<>>]
    /\ cnt = [t \in Threads |-> 0]
    /\ sent = [jobs |-> {}, responds |-> {}]
    /\ got = [jobs |-> <<>>, responds |-> <<>>]
    /\ appended = FALSE
    /\ calls = <<>>
    /\ engines = EnginesManager_init
    /\ engine = <<>>
    /\ cmd = <<>>
    /\ result = <<>>
    /\ latest = [added |-> {}, removed |-> {}]
    /\ chan = <<>>
    /\ loop = "attached"
    /\ handler = "none"
    /\ workers = {}
    /\ window = <<>>
    /\ seen = <<>>

\* `result` keeps the call, the engine before it and the value it returned.
EngineReturned(op, arg, ret) == [op |-> op, arg |-> arg, pre |-> engine, ret |-> ret]

\* Engine::new(name, path, prefix, commands, description)
eng_new ==
    /\ engine = <<>>
    /\ \E n \in EngineNames, p \in Prefixes,
          cs \in {None} \cup { Some(l) : l \in CommandLists(MaxCommands) } :
        /\ engine' = Engine_new(n, Path, p, cs, None)
        /\ result' = EngineReturned("new", cs, "unit")
    /\ UNCHANGED <<box, pc, out, cnt, sent, got, appended, calls, engines, cmd,
                 latest, chan, loop, handler, workers, window, seen>>

\* Engine::from_json_reader(fd)
eng_from_json_reader ==
    /\ engine = <<>>
    /\ \E f \in { x \in ConfigFiles : x.kind # "missing" } :
        /\ engine' = IF Engine_from_json_reader(f).ok THEN Engine_from_json_reader(f).val ELSE engine
        /\ result' = EngineReturned("from_json_reader", f, Engine_from_json_reader(f))
    /\ UNCHANGED <<box, pc, out, cnt, sent, got, appended, calls, engines, cmd,
                 latest, chan, loop, handler, workers, window, seen>>

\* engine.new_command(name, args, description)
eng_new_command ==
    /\ engine # <<>>
    /\ Len(engine.commands) <= MaxCommands
    /\ \E n \in CommandNames, a \in Templates, d \in Descriptions :
        /\ engine' = new_command(engine, n, a, d).engine
        /\ result' = EngineReturned("new_command", <<n, a, d>>, new_command(engine, n, a, d).ret)
    /\ UNCHANGED <<box, pc, out, cnt, sent, got, appended, calls, engines, cmd,
                 latest, chan, loop, handler, workers, window, seen>>

\* engine.add_command(command)
eng_add_command ==
    /\ engine # <<>>
    /\ Len(engine.commands) <= MaxCommands
    /\ \E c \in BuiltCommands :
        /\ engine' = add_command(engine, c).engine
        /\ result' = EngineReturned("add_command", c, add_command(engine, c).ret)
    /\ UNCHANGED <<box, pc, out, cnt, sent, got, appended, calls, engines, cmd,
                 latest, chan, loop, handler, workers, window, seen>>

\* engine.list_commands()
eng_list_commands ==
    /\ engine # <<>>
    /\ result' = EngineReturned("list_commands", "unit", list_commands(engine))
    /\ UNCHANGED <<box, pc, out, cnt, sent, got, appended, calls, engines, engine, cmd,
                 latest, chan, loop, handler, workers, window, seen>>

NextEngine ==
    \/ eng_new
    \/ eng_from_json_reader
    \/ eng_new_command
    \/ eng_add_command
    \/ eng_list_commands

SpecEngine == InitEngine /\ [][NextEngine]_vars

\* C10: in every reachable Engine the command names are pairwise distinct.
C10_CommandNamesDistinct ==
    engine # <<>> =>
        \A i, j \in 1..Len(engine.commands) :
            engine.commands[i].name = engine.commands[j].name => i = j

\* ------------------------------------------------------ a Command by itself

\* The pieces of the argument strings: "$query", "$", "query", "-s=", " ".
Pieces == {QUERY, <<"$">>, <<"q", "u", "e", "r", "y">>, <<"-", "s", "=">>, <<" ">>}

\* Every string of up to MaxPieces pieces: "", "-s=$query", "$" "query",
\* "query$", "$query $query", ...
RECURSIVE Strings(_)
Strings(k) ==
    IF k = 0 THEN {<<>>}
    ELSE Strings(k - 1) \cup { s \o p : s \in Strings(k - 1), p \in Pieces }

InitCommand ==
    /\ box = init
    /\ pc = [t \in Threads |-> "idle"]
    /\ out = [t \in Threads |-> <<>>]
    /\ cnt = [t \in Threads |-> 0]
    /\ sent = [jobs |-> {}, responds |-> {}]
    /\ got = [jobs |-> <<>>, responds |-> <<>>]
    /\ appended = FALSE
    /\ calls = <<>>
    /\ engines = EnginesManager_init
    /\ engine = <<>>
    /\ cmd = <<>>
    /\ result = <<>>
    /\ latest = [added |-> {}, removed |-> {}]
    /\ chan = <<>>
    /\ loop = "attached"
    /\ handler = "none"
    /\ workers = {}
    /\ window = <<>>
    /\ seen = <<>>

\* `result` keeps the call, the command it was made on and the value it returned.
CommandReturned(op, arg, ret) == [op |-> op, arg |-> arg, pre |-> cmd, ret |-> ret]

\* let cmd = Command::new(name, args, description): the caller holds the
\* command when the call returns Ok.
cmd_new ==
    /\ cmd = <<>>
    /\ \E n \in CommandNames, a \in Strings(MaxPieces), d \in Descriptions :
        /\ cmd' = IF Command_new(n, a, d).ok THEN Command_new(n, a, d).val ELSE cmd
        /\ result' = CommandReturned("new", [name |-> n, args |-> a, description |-> d],
                                     Command_new(n, a, d))
    /\ UNCHANGED <<box, pc, out, cnt, sent, got, appended, calls, engines, engine,
                 latest, chan, loop, handler, workers, window, seen>>

\* cmd.parse_args(query)
cmd_parse_args ==
    /\ cmd # <<>>
    /\ \E q \in Queries :
        result' = CommandReturned("parse_args", q, parse_args(cmd, q))
    /\ UNCHANGED <<box, pc, out, cnt, sent, got, appended, calls, engines, engine, cmd,
                 latest, chan, loop, handler, workers, window, seen>>

\* The command goes out of scope.
cmd_drop ==
    /\ cmd # <<>>
    /\ cmd' = <<>>
    /\ result' = <<>>
    /\ UNCHANGED <<box, pc, out, cnt, sent, got, appended, calls, engines, engine,
                 latest, chan, loop, handler, workers, window, seen>>

NextCommand ==
    \/ cmd_new
    \/ cmd_parse_args
    \/ cmd_drop

SpecCommand == InitCommand /\ [][NextCommand]_vars

\* The places of s where the placeholder starts, character by character.
PlaceholderAt(s) ==
    { i \in 1..Len(s) :
        /\ i + Len(QUERY) - 1 <= Len(s)
        /\ \A k \in 1..Len(QUERY) : s[i + k - 1] = QUERY[k] }

\* C11: Command::new returns Err(InvalidArgs) exactly when args holds no
\* "$query"; otherwise it returns a Command with exactly the given name, args
\* and description.
C11_NewChecksPlaceholder ==
    (result # <<>> /\ result.op = "new") =>
        /\ (result.ret = Err("InvalidArgs")) <=> (PlaceholderAt(result.arg.args) = {})
        /\ PlaceholderAt(result.arg.args) # {} =>
            /\ result.ret.ok
            /\ get_name(result.ret.val) = result.arg.name
            /\ result.ret.val.args = result.arg.args
            /\ get_description(result.ret.val) = result.arg.description
            /\ cmd = result.ret.val

\* Command::new accepted "-s=" "$" "query", whose placeholder is not at the
\* start, and before that refused a string.
C11_Witness ==
    /\ result # <<>> /\ result.op = "new"
    /\ result.ret.ok
    /\ result.arg.args = <<"-", "s", "=", "$", "q", "u", "e", "r", "y">>
    /\ result.arg.description # None

\* The characters of s before place i that belong to no placeholder.
Outside(s, i) == { j \in 1..(i - 1) : \A p \in PlaceholderAt(s) : j < p \/ j >= p + Len(QUERY) }

\* Placeholders of s that start before place i.
Before(s, i) == { p \in PlaceholderAt(s) : p < i }

\* Where the character (or placeholder) at place i of s lands in the rendering.
Lands(s, q, i) == Cardinality(Outside(s, i)) + Cardinality(Before(s, i)) * Len(q) + 1

\* C12: parse_args(q) is the template with every "$query" replaced by q as it
\* is and every other character unchanged and in place; the command is not
\* modified.
C12_ParseArgsReplacesAll ==
    (result # <<>> /\ result.op = "parse_args") =>
        LET s == result.pre.args
            q == result.arg
            r == result.ret
        IN  /\ Len(r) = Cardinality(Outside(s, Len(s) + 1)) + Cardinality(PlaceholderAt(s)) * Len(q)
            /\ \A i \in 1..Len(s) :
                /\ i \in Outside(s, Len(s) + 1) => r[Lands(s, q, i)] = s[i]
                /\ i \in PlaceholderAt(s) =>
                    SubSeq(r, Lands(s, q, i), Lands(s, q, i) + Len(q) - 1) = q
            /\ cmd = result.pre

\* "$query $query" rendered with "a b" is "a b a b".
C12_Witness ==
    /\ result # <<>> /\ result.op = "parse_args"
    /\ result.pre.args = T_query_query
    /\ result.arg = <<"a", " ", "b">>
    /\ result.ret = <<"a", " ", "b", " ", "a", " ", "b">>

\* --------------------------------------------------- an engine that executes

\* The engines asked to execute: built by hand from up to MaxCommands built
\* commands, or read from a descriptor.
ExecEngines ==
    { Engine_new("facebook", Path, p, cs, None) :
        p \in Prefixes, cs \in {None} \cup { Some(l) : l \in CommandLists(MaxCommands) } }
    \cup { Engine_from_json_reader(f).val :
            f \in { g \in ConfigFiles : g.kind = "descriptor" /\ Engine_from_json_reader(g).ok } }

InitExecute ==
    /\ box = init
    /\ pc = [t \in Threads |-> "idle"]
    /\ out = [t \in Threads |-> <<>>]
    /\ cnt = [t \in Threads |-> 0]
    /\ sent = [jobs |-> {}, responds |-> {}]
    /\ got = [jobs |-> <<>>, responds |-> <<>>]
    /\ appended = FALSE
    /\ calls = <<>>
    /\ engines = EnginesManager_init
    /\ engine \in ExecEngines
    /\ cmd = <<>>
    /\ result = <<>>
    /\ latest = [added |-> {}, removed |-> {}]
    /\ chan = <<>>
    /\ loop = "attached"
    /\ handler = "none"
    /\ workers = {}
    /\ window = <<>>
    /\ seen = <<>>

\* let result = engine.execute(command_name, query)
exe_execute ==
    /\ result = <<>>
    /\ latest = [added |-> {}, removed |-> {}]
    /\ chan = <<>>
    /\ loop = "attached"
    /\ handler = "none"
    /\ workers = {}
    /\ window = <<>>
    /\ seen = <<>>
    /\ \E n \in CommandNames, q \in Queries, os \in OsOutcomes :
        result' = [op |-> "execute",
                   arg |-> [command_name |-> n, query |-> q, os |-> os],
                   pre |-> engine,
                   ret |-> execute(engine, n, q, os).ret,
                   spawned |-> execute(engine, n, q, os).spawned]
    /\ UNCHANGED <<box, pc, out, cnt, sent, got, appended, calls, engines, engine, cmd,
                 latest, chan, loop, handler, workers, window, seen>>

\* The caller has taken the result.
exe_return ==
    /\ result # <<>>
    /\ result' = <<>>
    /\ UNCHANGED <<box, pc, out, cnt, sent, got, appended, calls, engines, engine, cmd,
                 latest, chan, loop, handler, workers, window, seen>>

NextExecute ==
    \/ exe_execute
    \/ exe_return

SpecExecute == InitExecute /\ [][NextExecute]_vars

\* The pieces put together again with one space between them.
RECURSIVE Join(_)
Join(ts) ==
    IF Len(ts) = 1 THEN ts[1] ELSE ts[1] \o <<" ">> \o Join(Tail(ts))

\* The command of the engine that a name stands for, if any.
Named(e, n) == { i \in 1..Len(e.commands) : e.commands[i].name = n }
FirstNamed(e, n) == e.commands[CHOOSE i \in Named(e, n) : \A j \in Named(e, n) : i <= j]

\* C13: execute runs the prefix with the path and then the tokens as its
\* arguments, or without a prefix the path with the tokens; the tokens are the
\* rendered template cut at every single space.
C13_InvocationShape ==
    (result # <<>> /\ result.op = "execute" /\ Named(result.pre, result.arg.command_name) # {}) =>
        LET e == result.pre
            rendered == parse_args(FirstNamed(e, result.arg.command_name), result.arg.query)
            inv == result.spawned[1]
            tokens == IF e.prefix # None THEN Tail(inv.args) ELSE inv.args
        IN  /\ result.spawned # None
            /\ inv.program = IF e.prefix # None THEN e.prefix[1] ELSE e.path
            /\ e.prefix # None => Len(inv.args) >= 1 /\ inv.args[1] = e.path
            /\ Len(tokens) >= 1
            /\ Join(tokens) = rendered
            /\ \A i \in 1..Len(tokens) : \A k \in 1..Len(tokens[i]) : tokens[i][k] # " "

\* python3 ./engines/engine -s=u1
C13_Witness ==
    /\ result # <<>> /\ result.op = "execute"
    /\ result.spawned # None
    /\ result.arg.query = <<"u", "1">>
    /\ result.spawned[1].program = "python3"
    /\ result.spawned[1].args = <<Path, <<"-", "s", "=", "u", "1">>>>

\* C14: execute returns UnknownCommand and starts no process when the engine
\* has no command of that name; with such a command it never returns
\* UnknownCommand.
C14_UnknownCommandOnly ==
    (result # <<>> /\ result.op = "execute") =>
        IF Named(result.pre, result.arg.command_name) = {}
        THEN result.ret = Err("UnknownCommand") /\ result.spawned = None
        ELSE result.ret # Err("UnknownCommand")

\* An engine that has commands is asked for one it does not have.
C14_Witness ==
    /\ result # <<>> /\ result.op = "execute"
    /\ result.pre.commands # <<>>
    /\ engine = result.pre
    /\ result.ret = Err("UnknownCommand")
    /\ result.arg.os.ran

\* C15: for an existing command the outcome follows the process alone: not
\* run gives ExecutionFailed, a stdout that is not UTF-8 gives UnknownError,
\* else Ok(stdout), whatever the exit status and stderr.
C15_OutcomeFromProcess ==
    (result # <<>> /\ result.op = "execute" /\ Named(result.pre, result.arg.command_name) # {}) =>
        LET os == result.arg.os
        IN  /\ ~os.ran => result.ret = Err("ExecutionFailed")
            /\ (os.ran /\ os.stdout \in Utf8Stdouts) => result.ret = Ok(os.stdout)
            /\ (os.ran /\ os.stdout \in OtherStdouts) => result.ret = Err("UnknownError")

\* A program that exits with status 1 and writes to stderr: its stdout is
\* returned.
C15_Witness ==
    /\ result # <<>> /\ result.op = "execute"
    /\ result.arg.os.ran
    /\ result.arg.os.status = 1
    /\ result.arg.os.stderr # <<>>
    /\ result.ret = Ok(<<195, 169>>)

\* C16: the registry's execute returns UnknownEngine exactly when the engine
\* name is not registered; for a registered engine an unknown command, a
\* program that did not run and a stdout that is not UTF-8 all come back as
\* the one UnkownCommand, and a stdout that is UTF-8 comes back as it is; the
\* registry is not changed.
C16_RegistryExecute ==
    (result # <<>> /\ result.op = "execute") =>
        LET a == result.arg
            os == a.os
        IN  /\ (result.ret = Err("UnknownEngine")) <=> (a.engine \notin DOMAIN result.pre)
            /\ a.engine \in DOMAIN result.pre =>
                IF /\ Named(result.pre[a.engine], a.command) # {}
                   /\ os.ran
                   /\ os.stdout \in Utf8Stdouts
                THEN result.ret = Ok(os.stdout)
                ELSE result.ret = Err("UnkownCommand")
            /\ engines = result.pre

\* A registered engine has the command, and its program wrote bytes that are
\* not UTF-8: the caller is told UnkownCommand.
C16_Witness ==
    /\ result # <<>> /\ result.op = "execute"
    /\ result.arg.engine \in DOMAIN result.pre
    /\ Named(result.pre[result.arg.engine], result.arg.command) # {}
    /\ result.arg.os.ran
    /\ result.arg.os.stdout \in OtherStdouts
    /\ result.ret = Err("UnkownCommand")
    /\ DOMAIN engines = EngineNames

\* The command name an add is called with.
AddedName == IF result.op = "new_command" THEN result.arg[1] ELSE result.arg.name

\* C17: new_command and add_command with a name the engine already has fail
\* with CommandExists and leave the engine's commands as they were.
C17_ExistingNameRefused ==
    (/\ result # <<>>
     /\ result.op \in {"new_command", "add_command"}
     /\ Named(result.pre, AddedName) # {}) =>
        /\ result.ret = Err("CommandExists")
        /\ engine.commands = result.pre.commands
        /\ engine = result.pre

\* new_command is given the name of a command that has a description, with
\* another template and no description.
C17_Witness ==
    /\ result # <<>> /\ result.op = "new_command"
    /\ result.ret = Err("CommandExists")
    /\ \E i \in Named(result.pre, result.arg[1]) :
        /\ result.pre.commands[i].description # None
        /\ result.pre.commands[i].args # result.arg[2]
    /\ result.arg[3] = None
    /\ Command_new(result.arg[1], result.arg[2], result.arg[3]).ok

\* The engine name an add is called with: the name given to add_engine, the
\* name in the descriptor read by add_engine_from_config.
AddedEngine == IF result.op = "add_engine" THEN result.arg ELSE result.arg.engine.name

\* C18: every engine is stored under its own name, and add_engine and
\* add_engine_from_config with a registered name fail with EngineExists and
\* leave the registry, the entry of that name included, as it was.
C18_EngineNamesUnique ==
    /\ \A n \in DOMAIN engines : engines[n].name = n
    /\ (/\ result # <<>>
        /\ \/ result.op = "add_engine"
           \/ result.op = "add_engine_from_config" /\ result.arg.kind = "descriptor"
        /\ AddedEngine \in DOMAIN result.pre) =>
            /\ result.ret = Err("EngineExists")
            /\ engines[AddedEngine] = result.pre[AddedEngine]
            /\ engines = result.pre

\* Both engines are registered and a descriptor with the name of one of them,
\* but other commands, is refused.
C18_Witness ==
    /\ result # <<>> /\ result.op = "add_engine_from_config"
    /\ result.ret = Err("EngineExists")
    /\ DOMAIN engines = EngineNames
    /\ engines[result.arg.engine.name].commands # result.arg.engine.commands
    /\ engines[result.arg.engine.name].description = None

\* ------------------------------------- building a registry, building an engine

\* The registry and an engine built by hand share no state, so calls on the
\* one and on the other commute: a run builds one of the two.
con_add_engine_from_config ==
    /\ engine = <<>>
    /\ reg_add_engine_from_config

con_remove_engine ==
    /\ engine = <<>>
    /\ reg_remove_engine

con_new ==
    /\ engines = EnginesManager_init
    /\ eng_new

con_new_command ==
    /\ engines = EnginesManager_init
    /\ eng_new_command

NextConstruct ==
    \/ con_add_engine_from_config
    \/ con_remove_engine
    \/ con_new
    \/ con_new_command

SpecConstruct == InitRegistry /\ [][NextConstruct]_vars

\* C19: when new_command returns InvalidArgs or CommandExists the engine is
\* as before the call, and when add_engine_from_config returns InvalidConfig
\* or EngineExists the registry's map is as before the call.
C19_ErrorsLeaveStateAlone ==
    /\ (/\ result # <<>> /\ result.op = "new_command"
        /\ result.ret \in {Err("InvalidArgs"), Err("CommandExists")}) =>
            /\ engine = result.pre
            /\ engine.commands = result.pre.commands
    /\ (/\ result # <<>> /\ result.op = "add_engine_from_config"
        /\ result.ret \in {Err("InvalidConfig"), Err("EngineExists")}) =>
            engines = result.pre

\* A registry that holds an engine was given a file that is no descriptor.
C19_Witness ==
    /\ result # <<>> /\ result.op = "add_engine_from_config"
    /\ result.ret = Err("InvalidConfig")
    /\ result.arg.kind = "malformed"
    /\ engines # EnginesManager_init
    /\ engines = result.pre

\* C20: list_engine_commands returns UnknownEngine exactly when the name is
\* not registered; otherwise it returns a map with exactly one entry for each
\* command of the engine, the command's name mapped to its description, and
\* the registry is not changed.
C20_OneEntryPerCommand ==
    (result # <<>> /\ result.op = "list_engine_commands") =>
        /\ (result.ret = Err("UnknownEngine")) <=> (result.arg \notin DOMAIN result.pre)
        /\ result.arg \in DOMAIN result.pre =>
            LET commands == result.pre[result.arg].commands
            IN  /\ result.ret.ok
                /\ Cardinality(DOMAIN result.ret.val) = Len(commands)
                /\ \A i \in 1..Len(commands) :
                    /\ commands[i].name \in DOMAIN result.ret.val
                    /\ result.ret.val[commands[i].name] = commands[i].description
        /\ engines = result.pre

\* C21: list_engines returns exactly the names whose latest successful add or
\* remove was an add; remove_engine of an absent name changes nothing, of a
\* present name removes that entry alone; a name that was removed is added
\* again by the next add.
C21_ListIsLatestAdds ==
    /\ list_engines(engines) = latest.added
    /\ (result # <<>> /\ result.op = "list_engines") =>
            result.ret = latest.added /\ engines = result.pre
    /\ (result # <<>> /\ result.op = "remove_engine") =>
            /\ result.arg \notin DOMAIN result.pre => engines = result.pre
            /\ DOMAIN engines = DOMAIN result.pre \ {result.arg}
            /\ \A n \in DOMAIN engines : engines[n] = result.pre[n]
    /\ (/\ result # <<>>
        /\ \/ result.op = "add_engine"
           \/ result.op = "add_engine_from_config" /\ result.arg.kind = "descriptor"
        /\ AddedEngine \in latest.removed
        /\ AddedEngine \notin DOMAIN result.pre) =>
            /\ result.ret.ok
            /\ DOMAIN engines = DOMAIN result.pre \cup {AddedEngine}

\* An engine that had been removed is added again while the other engine
\* stays registered.
C21_Witness ==
    /\ result # <<>> /\ result.op = "add_engine"
    /\ result.ret.ok
    /\ result.arg \in latest.removed
    /\ result.pre # EnginesManager_init
    /\ DOMAIN engines = EngineNames

\* ------------------------------------------------------------ SherlockManager

\* enum Task
ListEngines == [task |-> "ListEngines"]
RunEngine(engine_name, query) ==
    [task |-> "RunEngine", engine_name |-> engine_name, query |-> query]

\* enum Message: what travels on the channel of listen.  A Result message
\* also says which worker sent it (history).
Message_Task(task) == [msg |-> "Task", task |-> task]
Message_Log(log) == [msg |-> "Log", log |-> log]
Message_Result(r, w) == [msg |-> "Result", result |-> r, worker |-> w]

\* enum Log
Log_Info(text) == [level |-> "Info", text |-> text]
Log_Error(text) == [level |-> "Error", text |-> text]

\* format!("{:?}", x)
fmt_debug(x) == [debug |-> x]

\* serde_json::from_str::<Task>: a unit variant is its name as a JSON string,
\* a struct variant an object of one key, the variant's name, over an object
\* that has the variant's fields.
Task_from_str(payload) ==
    IF payload.json = "string"
    THEN IF payload.value = "ListEngines" THEN Ok(ListEngines) ELSE Err("serde_json::Error")
    ELSE IF payload.json = "object"
    THEN IF payload.key = "RunEngine" /\ {"engine_name", "query"} \subseteq DOMAIN payload.value
         THEN Ok(RunEngine(payload.value.engine_name, payload.value.query))
         ELSE Err("serde_json::Error")
    ELSE Err("serde_json::Error")

\* The payloads of the task-event events: none at all, "ListEngines",
\* {"RunEngine":{"engine_name":"google","query":"u1"}}, "Shutdown",
\* {"RunEngine":{"engine_name":"google"}}, the RunEninges job of the mailbox,
\* and text that is no JSON.
Payloads ==
    { None,
      Some([json |-> "string", value |-> "ListEngines"]),
      Some([json |-> "object", key |-> "RunEngine",
            value |-> [engine_name |-> "google", query |-> "u1"]]),
      Some([json |-> "string", value |-> "Shutdown"]),
      Some([json |-> "object", key |-> "RunEngine", value |-> [engine_name |-> "google"]]),
      Some([json |-> "object", key |-> "RunEninges",
            value |-> [engines_list |-> <<"google">>, query |-> "u1"]]),
      Some([json |-> "invalid"]) }

\* A config.json that holds a descriptor.
ConfigOf(name, commands) ==
    [kind |-> "descriptor",
     engine |-> [name |-> name, path |-> Path, prefix |-> Some("python3"),
                 description |-> Some("search a user"), commands |-> commands]]

\* What fs::read_dir finds in the engines directory: an error, or the
\* config.json of each engine directory.
EnginesDirs ==
    { Err("io::Error"),
      Ok(<<>>),
      Ok(<<ConfigOf("google", <<Entry("user", T_s_query)>>)>>),
      Ok(<<ConfigOf("facebook", <<Entry("user", T_s_query)>>), [kind |-> "missing"],
           ConfigOf("google", <<Entry("user", T_s_query), Entry("group", T_query_query)>>)>>) }

\* Window::emit: the window is handed the payload unless emit fails.
emit(win, payload, ok) == IF ok THEN Append(win, payload) ELSE win

\* for engine in engines { add_engine_from_config(config.json) } of build
RECURSIVE load(_, _)
load(map, dir) ==
    IF dir = <<>> THEN map
    ELSE load(add_engine_from_config(map, Head(dir)).engines, Tail(dir))

\* What the worker of do_task sends after its sleep.
do_task_result == [result |-> "List", list |-> <<"google", "instagram", "mysql">>]

\* SherlockManager::init().attach(window)
InitDispatch ==
    /\ box = init
    /\ pc = [t \in Threads |-> "idle"]
    /\ out = [t \in Threads |-> <<>>]
    /\ cnt = [t \in Threads |-> 0]
    /\ sent = [jobs |-> {}, responds |-> {}]
    /\ got = [jobs |-> <<>>, responds |-> <<>>]
    /\ appended = FALSE
    /\ calls = <<>>
    /\ engines = EnginesManager_init
    /\ engine = <<>>
    /\ cmd = <<>>
    /\ result = <<>>
    /\ latest = [added |-> {}, removed |-> {}]
    /\ chan = <<>>
    /\ loop = "attached"
    /\ handler = "none"
    /\ workers = {}
    /\ window = <<>>
    /\ seen = [events |-> <<>>, queued |-> 0, dispatched |-> <<>>, responses |-> <<>>]

\* SherlockManager::build: without a ConfigManager nothing is done; else the
\* engines directory is read and every config.json in it is loaded, whatever
\* add_engine_from_config returns.  The results of emit are not looked at.
dsp_build ==
    /\ loop = "attached"
    /\ \E configs \in BOOLEAN, dir \in EnginesDirs, ok1 \in BOOLEAN, ok2 \in BOOLEAN :
        IF ~configs
        THEN UNCHANGED <<engines, window, latest>>
        ELSE /\ engines' = IF dir.ok THEN load(engines, dir.val) ELSE engines
             /\ latest' = [latest EXCEPT !.added = DOMAIN engines']
             /\ window' = emit(IF dir.ok THEN window
                               ELSE emit(window, Log_Error(dir.err), ok1),
                               Log_Info("loaded engines"), ok2)
    /\ loop' = "built"
    /\ UNCHANGED <<box, pc, out, cnt, sent, got, appended, calls, engine, cmd, result,
                   chan, handler, workers, seen>>

\* SherlockManager::listen up to its loop: the channel is created and the
\* task-event handler is registered.
dsp_listen ==
    /\ loop \in {"attached", "built"}
    /\ loop' = "recv"
    /\ handler' = "listening"
    /\ chan' = <<>>
    /\ UNCHANGED <<box, pc, out, cnt, sent, got, appended, calls, engines, engine, cmd,
                   result, latest, workers, window, seen>>

\* The handler of task-event runs on an event of the frontend.  payload()
\* is unwrapped, and so is the result of send, which is an error once the
\* receiver is gone.
dsp_task_event ==
    /\ handler = "listening"
    /\ Len(seen.events) < MaxEvents
    /\ \E payload \in Payloads :
        /\ seen' = [seen EXCEPT !.events = Append(@, payload),
                                !.queued = IF /\ payload # None
                                              /\ Task_from_str(payload[1]).ok
                                              /\ loop = "recv"
                                           THEN @ + 1 ELSE @]
        /\ IF payload = None \/ loop # "recv"
           THEN handler' = "panicked" /\ chan' = chan
           ELSE /\ handler' = handler
                /\ chan' = Append(chan,
                        IF Task_from_str(payload[1]).ok
                        THEN Message_Task(Task_from_str(payload[1]).val)
                        ELSE Message_Log(Log_Error("invalid task")))
    /\ UNCHANGED <<box, pc, out, cnt, sent, got, appended, calls, engines, engine, cmd,
                   result, latest, loop, workers, window>>

\* One turn of the loop of listen: rx.recv() and the arm of the message.
\* do_task spawns a thread and returns.  Only the Log arm unwraps what emit
\* returns; a panic drops the receiver and the messages in the channel.
dsp_loop ==
    /\ loop = "recv"
    /\ chan # <<>>
    /\ \E ok \in BOOLEAN :
        LET recieved == Head(chan)
        IN  IF recieved.msg = "Task"
            THEN /\ window' = emit(window, Log_Info(fmt_debug(recieved.task)), ok)
                 /\ workers' = workers \cup {Len(seen.dispatched) + 1}
                 /\ seen' = [seen EXCEPT !.dispatched = Append(@, recieved.task)]
                 /\ chan' = Tail(chan)
                 /\ loop' = loop
            ELSE IF recieved.msg = "Log"
            THEN /\ window' = emit(window, recieved.log, ok)
                 /\ chan' = IF ok THEN Tail(chan) ELSE <<>>
                 /\ loop' = IF ok THEN loop ELSE "panicked"
                 /\ UNCHANGED <<workers, seen>>
            ELSE /\ window' = emit(window, Log_Info(fmt_debug(recieved.result)), ok)
                 /\ chan' = Tail(chan)
                 /\ UNCHANGED <<workers, seen, loop>>
    /\ UNCHANGED <<box, pc, out, cnt, sent, got, appended, calls, engines, engine, cmd,
                   result, latest, handler>>

\* The thread spawned by do_task wakes up and sends its result; what send
\* returns is not looked at.
dsp_worker ==
    /\ \E w \in workers :
        /\ workers' = workers \ {w}
        /\ chan' = IF loop = "recv" THEN Append(chan, Message_Result(do_task_result, w))
                   ELSE chan
        /\ seen' = [seen EXCEPT !.responses =
                        Append(@, [worker |-> w, result |-> do_task_result,
                                   sent |-> loop = "recv"])]
    /\ UNCHANGED <<box, pc, out, cnt, sent, got, appended, calls, engines, engine, cmd,
                   result, latest, loop, handler, window>>

NextDispatch ==
    \/ dsp_build
    \/ dsp_listen
    \/ dsp_task_event
    \/ dsp_loop
    \/ dsp_worker

SpecDispatch == InitDispatch /\ [][NextDispatch]_vars

\* The loop of listen is a running thread; the workers may sleep for ever.
SpecDispatchFair == SpecDispatch /\ WF_vars(dsp_loop)

\* The responses the worker of dispatch number w has produced.
ResponsesOf(w) == { i \in 1..Len(seen.responses) : seen.responses[i].worker = w }

\* C22: for a run-engine job the dispatcher produces exactly one response for
\* the engine the job names, an EngineResult with that engine's name or an
\* Error, and no response for any other engine.
C22_RunEngineResponses ==
    \A w \in 1..Len(seen.dispatched) :
        seen.dispatched[w].task = "RunEngine" =>
            /\ Cardinality(ResponsesOf(w)) <= 1
            /\ w \notin workers => Cardinality(ResponsesOf(w)) = 1
            /\ \A i \in ResponsesOf(w) :
                \/ seen.responses[i].result.result = "Error"
                \/ /\ seen.responses[i].result.result = "EngineResult"
                   /\ seen.responses[i].result.engine = seen.dispatched[w].engine_name

\* C23: the response to a ListEngines job holds exactly the engine names
\* registered, the value of list_engines.
C23_ListEnginesResponse ==
    \A w \in 1..Len(seen.dispatched) :
        seen.dispatched[w].task = "ListEngines" =>
            \A i \in ResponsesOf(w) :
                /\ seen.responses[i].result.result = "List"
                /\ Range(seen.responses[i].result.list) = list_engines(engines)
                /\ Len(seen.responses[i].result.list) = Cardinality(list_engines(engines))

\* The events whose payload is no Task, the events whose payload is one.
BadEvents ==
    { i \in 1..Len(seen.events) :
        seen.events[i] = None \/ ~Task_from_str(seen.events[i][1]).ok }
GoodEvents == (1..Len(seen.events)) \ BadEvents

\* The "invalid task" error logs the window was handed.
InvalidTaskLogs ==
    { i \in 1..Len(window) : window[i].level = "Error" /\ window[i].text = "invalid task" }

\* C24: every task event whose payload is malformed or unrecognised leads to
\* an error log handed to the window, and is never dispatched as a task.
C24_BadPayloadLogged ==
    /\ \A k \in 1..MaxEvents :
        (Cardinality(BadEvents) >= k) ~> (Cardinality(InvalidTaskLogs) >= k)
    /\ [](Len(seen.dispatched) <= Cardinality(GoodEvents))

\* C25: the loop of listen never terminates, whatever message it has
\* processed and whether or not emit failed.
C25_LoopNeverTerminates == loop # "panicked"

\* C26: the loop dispatches every task that was put on the channel, however
\* many workers still sleep or never wake up, and every worker that wakes up
\* gets its result onto the channel.
C26_FireAndForget ==
    /\ \A k \in 1..MaxEvents : (seen.queued >= k) ~> (Len(seen.dispatched) >= k)
    /\ [](\A i \in 1..Len(seen.responses) : seen.responses[i].sent)

\* C27: in the multithread test every respond the producer sent has been
\* returned by a recieve_responds call of the consumer when the consumer's
\* loop exits, and the responds queue is empty when both threads are done.
C27_AllRespondsReceived ==
    (pc.producer = "done" /\ pc.consumer = "done") =>
        /\ sent.responds = Range(Flatten(got.responds))
        /\ box.responds = <<>>

\* C28: recieve_jobs changes the jobs queue alone, recieve_responds the
\* responds queue alone and send_log the logs queue alone; none of them
\* changes pending, and a call that turns pending from true to false is finish.
C28_ReceiveAndLogFrame ==
    \A i \in 1..Len(calls) :
        /\ calls[i].op = "recieve_jobs" =>
            calls[i].post = [calls[i].pre EXCEPT !.jobs = calls[i].post.jobs]
        /\ calls[i].op = "recieve_responds" =>
            calls[i].post = [calls[i].pre EXCEPT !.responds = calls[i].post.responds]
        /\ calls[i].op = "send_log" =>
            calls[i].post = [calls[i].pre EXCEPT !.logs = calls[i].post.logs]
        /\ calls[i].op \in {"recieve_jobs", "recieve_responds", "send_log"} =>
            calls[i].post.pending = calls[i].pre.pending
        /\ (calls[i].pre.pending /\ ~calls[i].post.pending) => calls[i].op = "finish"

\* recieve_responds empties a responds queue while pending is true and the
\* other two queues hold messages, and send_log follows.
C28_Witness ==
    /\ Len(calls) = 2
    /\ calls[1].op = "recieve_responds"
    /\ calls[1].pre.pending /\ calls[1].post.pending
    /\ calls[1].pre.responds # <<>> /\ calls[1].post.responds = <<>>
    /\ calls[1].pre.jobs # <<>> /\ calls[1].post.jobs # <<>>
    /\ calls[2].op = "send_log"
    /\ calls[2].post.logs # calls[2].pre.logs

====
